---- MODULE Spec2Model ----
(***************************************************************************)
(* A model of aldhinn/necessity-for-locks: a 4x4 matrix of independently   *)
(* atomic cells (matrix.hpp), the MultiplicationRecorder, and the gtest    *)
(* fixture of main.cpp whose detached background task keeps overwriting    *)
(* random cells of two shared matrices while the test body multiplies them. *)
(* Every load and store of a cell, of the flag and of the mutex is one      *)
(* step.                                                                    *)
(***************************************************************************)
EXTENDS Integers, Sequences, FiniteSets, TLC

VARIABLES
    test,        \* which TEST_F body runs on this fixture instance
    inherited,   \* threads of earlier fixture instances still running on this storage
    argOrder,    \* order in which the build evaluates the recorder's 3 arguments
    mulOrder,    \* order in which the build evaluates the two operands of a product term
    mat1,        \* TestSuiteFixture::_mat1
    mat2,        \* TestSuiteFixture::_mat2
    shouldModificationsContinue,  \* TestSuiteFixture::_shouldModificationsContinue
    calculations,\* TestSuiteFixture::_calculations
    mutex,       \* TestSuiteFixture::_mutex: <<"free">>, <<"harness">> or <<"task", n>>
    alive,       \* the fixture instance exists (not yet deleted by the framework)
    hpc,         \* position of the thread that runs SetUp, the test body and TearDown
    i,           \* the loop variable of the test body
    arg,         \* index into argOrder of the argument being evaluated
    k,           \* number of cell loads done in the argument being evaluated (of cell stores, in SetUp)
    leftMat,     \* first argument of MultiplicationRecorder(...), a copy of _mat1
    rightMat,    \* second argument, a copy of _mat2
    dotProduct,  \* third argument, _mat1 * _mat2; inside operator* its dotProductMatrix
    sum,         \* operator*'s local double dotProduct
    operand,     \* the operand of the current term that was loaded first
    accuracy,    \* result of calculateAccuracy(), <<numerator, denominator>>
    tasks,       \* position of every thread started by runTestVariableModifier
    calls,       \* the start/stop calls made so far by the "startStop" body
    landed,      \* history: a task store landed between two loads of the current loop body
    raced,       \* history: the value of landed when each record was appended
    ctorArg,     \* the initializer list handed to AtomicMatrix4x4's constructor
    ctorOut,     \* what the constructor produced: a matrix or an exception
    opA,         \* left operand of the operator under check
    opB,         \* right operand of the operator under check
    opOut,       \* result of the operator under check
    opArgs       \* its scalar arguments: <<rowIndex, colIndex>> or <<rowIndex, colIndex, value>>

vars == <<test, inherited, argOrder, mulOrder, mat1, mat2, shouldModificationsContinue,
          calculations, mutex, alive, hpc, i, arg, k, leftMat, rightMat,
          dotProduct, sum, operand, accuracy, tasks, calls, landed, raced,
          ctorArg, ctorOut, opA, opB, opOut, opArgs>>

fixtureVars == <<test, inherited, argOrder, mulOrder, mat1, mat2, shouldModificationsContinue,
                 calculations, mutex, alive, hpc, i, arg, k, leftMat, rightMat,
                 dotProduct, sum, operand, accuracy, tasks, calls, landed, raced>>

historyVars == <<landed, raced>>

pureVars == <<ctorArg, ctorOut, opA, opB, opOut, opArgs>>

----------------------------------------------------------------------------
(* Bounds of the model.                                                    *)

\* CYCLES of runCalculationsWithoutThreadLocks (100000 in the source).
CyclesWithoutLocks == 1

\* CYCLES of runCalculationsWithThreadLocks (100000 in the source).
CyclesWithLocks == 1

\* Start/stop calls an API-driving test body makes.
MaxCalls == 3

\* Longest initializer list, of rows and of the values of a row, handed to
\* the constructor.
MaxListLen == 5

\* Largest result of ::std::rand() considered for a task iteration on its own.
MaxRand == 7

\* Largest result of ::std::rand() considered while a test body runs
\* alongside the tasks: every load of the body can then see every value the
\* tasks store, in every order, over any number of iterations.
MaxRandInTest == 0

\* Most threads detached by earlier fixture instances that still run when
\* the fixture instance is constructed.
MaxInherited == 1

\* Results ::std::rand() may return, from 0 up to the bound in force; each
\* is reduced "% 4" by the task.
RandResults == IF test = "iteration" THEN 0 .. MaxRand ELSE 0 .. MaxRandInTest

----------------------------------------------------------------------------
(* AtomicMatrix4x4.                                                        *)

\* The dimension of the matrix: ::std::atomic<double> _data[4][4].
N == 4

Index == 0 .. (N - 1)

Cells == Index \X Index

\* The content of a cell no store has initialised yet: a default-constructed
\* ::std::atomic<double> holds 0.0 under C++20 and whatever its storage held
\* under the earlier standards; one nonzero value stands for the latter.
Indeterminate == 0 - 1

RawContents == {0, Indeterminate}

\* Row-major position n (0..15) of the loops "for rowIndex, for colIndex".
CellAt(n) == <<n \div N, n % N>>

\* A store that writes the whole row of the cell.
StoreRow(m, cell, value) == [c \in Cells |-> IF c[1] = cell[1] THEN value ELSE m[c]]

\* _data[rowIndex][colIndex].store(value)
Store(m, cell, value) == [m EXCEPT ![cell] = value]

\* The storage of a matrix before its constructor body has run; where every
\* cell is stored to before it is loaded the content does not matter and
\* RawMatrix is used.
RawMatrices == {[c \in Cells |-> v] : v \in RawContents}

RawMatrix == [c \in Cells |-> Indeterminate]

\* The inner loops of the constructor for one supplied row: the elements,
\* then "for (; colIndex < 4; colIndex++) store(double())".
FillRow(m, rowIndex, rowVector) ==
    [c \in Cells |->
        IF c[1] # rowIndex THEN m[c]
        ELSE IF c[2] < Len(rowVector) THEN rowVector[c[2] + 1]
        ELSE 0]

RECURSIVE FillSupplied(_, _, _)
\* The range-for over the supplied rows, rowIndex counting them.
FillSupplied(m, values, rowIndex) ==
    IF rowIndex >= Len(values) THEN m
    ELSE FillSupplied(FillRow(m, rowIndex, values[rowIndex + 1]), values, rowIndex + 1)

RECURSIVE FillRest(_, _)
\* "for (; rowIndex < 4; rowIndex++) { zero the row; rowIndex++; }": the
\* loop header and the loop body both advance rowIndex.
FillRest(m, rowIndex) ==
    IF rowIndex < N
    THEN FillRest(FillRow(m, rowIndex, <<>>), (rowIndex + 1) + 1)
    ELSE m

\* An exception leaving a function: std::out_of_range and its message.
OutOfRange(what) == [kind |-> "out_of_range", what |-> what]

Value(m) == [kind |-> "matrix", data |-> m]

\* AtomicMatrix4x4(const initializer_list<initializer_list<double>>& values)
AtomicMatrix4x4(raw, values) ==
    IF Len(values) > N
    THEN OutOfRange("Cannot initialize a 4x4 matrix with more than 4 row vectors.")
    ELSE IF \E r \in 1 .. Len(values) : Len(values[r]) > N
    THEN OutOfRange("Cannot initialize a 4x4 matrix with a vector with more than 4 elements.")
    ELSE Value(FillRest(FillSupplied(raw, values, 0), Len(values)))

\* A bounds check that lets index 4 through.
AtInclusive(rowIndex, colIndex) ==
    IF rowIndex > N \/ colIndex > N
    THEN [kind |-> "out_of_range", what |-> "Invalid index."]
    ELSE [kind |-> "reference", cell |-> <<rowIndex, colIndex>>]

\* operator()(rowIndex, colIndex), const or not: the reference to the cell,
\* or std::out_of_range when an index is 4 or more.
At(rowIndex, colIndex) ==
    IF rowIndex >= N \/ colIndex >= N
    THEN OutOfRange("Invalid index.")
    ELSE [kind |-> "reference", cell |-> <<rowIndex, colIndex>>]

\* A copy that leaves out the last cell.
CopyAllButLast(m, other, n) ==
    [c \in Cells |-> IF c = <<N - 1, N - 1>> THEN m[c] ELSE other[c]]

\* AtomicMatrix4x4(const AtomicMatrix4x4& other) and operator=: sixteen
\* loads of other, each stored into the cell of the same index.
RECURSIVE CopyFrom(_, _, _)
CopyFrom(m, other, n) ==
    IF n = N * N THEN m
    ELSE CopyFrom(Store(m, CellAt(n), other[CellAt(n)]), other, n + 1)

CopyMatrix(other) == CopyFrom(RawMatrix, other, 0)

\* A term that adds its operands.
TermAdded(left, right) == left + right

\* One term of the inner loop of operator*: leftMat(rowIndex, i) * rightMat(i, colIndex).
Term(left, right) == left * right

RECURSIVE DotProduct(_, _, _, _, _)
\* The value of "double dotProduct" after n rounds of "for (int i ...)".
DotProduct(leftM, rightM, rowIndex, colIndex, n) ==
    IF n = 0 THEN 0
    ELSE DotProduct(leftM, rightM, rowIndex, colIndex, n - 1)
         + Term(leftM[<<rowIndex, n - 1>>], rightM[<<n - 1, colIndex>>])

RECURSIVE MultiplyFrom(_, _, _, _)
MultiplyFrom(m, leftM, rightM, n) ==
    IF n = N * N THEN m
    ELSE MultiplyFrom(
            Store(m, CellAt(n), DotProduct(leftM, rightM, CellAt(n)[1], CellAt(n)[2], N)),
            leftM, rightM, n + 1)

\* operator*(leftMat, rightMat) when nothing writes the operands meanwhile.
Multiply(leftM, rightM) == MultiplyFrom(AtomicMatrix4x4(RawMatrix, <<>>).data, leftM, rightM, 0)

\* The double NaN, which some cell may hold.
NaN == 0 - 2

\* "a != b" on two doubles: a NaN is unequal to every double, itself
\* included.
DoubleNotEqual(a, b) == a = NaN \/ b = NaN \/ a # b

RECURSIVE EqualFrom(_, _, _)
\* operator==: scan in row-major order, false at the first unequal pair.
EqualFrom(leftM, rightM, n) ==
    IF n = N * N THEN TRUE
    ELSE IF DoubleNotEqual(leftM[CellAt(n)], rightM[CellAt(n)]) THEN FALSE
    ELSE EqualFrom(leftM, rightM, n + 1)

Equal(leftM, rightM) == EqualFrom(leftM, rightM, 0)

\* operator!=
NotEqual(leftM, rightM) == ~Equal(leftM, rightM)

----------------------------------------------------------------------------
(* MultiplicationRecorder.                                                 *)

\* MultiplicationRecorder(leftMat, rightMat, dotProduct): the three members
\* are copy-constructed from the by-value parameters.
MultiplicationRecorder(l, r, d) ==
    [leftMat |-> CopyMatrix(l), rightMat |-> CopyMatrix(r), dotProduct |-> CopyMatrix(d)]

\* A recorder that keeps a reference to the shared left operand, not a copy.
StoredLeftByReference(rec) == mat1

\* The members _leftMat, _rightMat, _dotProduct of a recorder.
StoredLeft(rec) == rec.leftMat

StoredRight(rec) == rec.rightMat

StoredProduct(rec) == rec.dotProduct

\* MultiplicationRecorder::isCorrect(): the temporary _leftMat * _rightMat is
\* computed once, then compared with _dotProduct.
isCorrect(rec) ==
    \E product \in {Multiply(StoredLeft(rec), StoredRight(rec))} :
        Equal(StoredProduct(rec), product)

\* The copy constructor of MultiplicationRecorder, used by push_back.
CopyRecorder(other) ==
    [leftMat |-> CopyMatrix(other.leftMat), rightMat |-> CopyMatrix(other.rightMat),
     dotProduct |-> CopyMatrix(other.dotProduct)]

\* MultiplicationRecorder::operator=: each of the three members assigned,
\* cell by cell, from the member of other.
AssignRecorder(rec, other) ==
    [leftMat |-> CopyFrom(rec.leftMat, other.leftMat, 0),
     rightMat |-> CopyFrom(rec.rightMat, other.rightMat, 0),
     dotProduct |-> CopyFrom(rec.dotProduct, other.dotProduct, 0)]

----------------------------------------------------------------------------
(* TestSuiteFixture.                                                       *)

\* The literals SetUp assigns.
M1 == <<<<1, 2, 0, 1>>, <<0, 1, 1, 0>>, <<1, 1, 0, 2>>, <<1, 0, 1, 0>>>>

M2 == <<<<2, 2, 0, 1>>, <<1, 1, 1, 2>>, <<1, 1, 3, 2>>, <<1, 2, 1, 1>>>>

\* A count that takes every record as correct.
CountAll(calcs, n) == n

RECURSIVE CountCorrect(_, _)
\* The counting loop of calculateAccuracy over the first n records.
CountCorrect(calcs, n) ==
    IF n = 0 THEN 0
    ELSE CountCorrect(calcs, n - 1) + (IF isCorrect(calcs[n]) THEN 1 ELSE 0)

\* calculateAccuracy(): (correct * 100.0) / size, kept as the exact quotient
\* <<numerator, denominator>>; a denominator of 0 is the division 0.0 / 0.0.
calculateAccuracy(calcs) == <<CountCorrect(calcs, Len(calcs)) * 100, Len(calcs)>>

\* accuracy == 100.0 / accuracy != 100.0 as GTEST_ASSERT_EQ/NE compare it;
\* the quiet NaN of 0.0 / 0.0 compares unequal to everything.
Is100(acc) == acc[2] # 0 /\ acc[1] = 100 * acc[2]

\* The TEST_F bodies that use the background task, and a body that only calls
\* the fixture's start operation and its stop (the flag store of TearDown).
Tests == {"runCalculationsWithoutThreadLocks", "runCalculationsWithThreadLocks", "startStop"}

Locked == test = "runCalculationsWithThreadLocks"

\* const int CYCLES of the test that runs.
Cycles == IF Locked THEN CyclesWithLocks ELSE CyclesWithoutLocks

Concurrent == test \in {"runCalculationsWithoutThreadLocks", "runCalculationsWithThreadLocks"}

\* The orders in which a build may evaluate the arguments of
\* MultiplicationRecorder calculation(_mat1, _mat2, _mat1 * _mat2).
ArgOrders ==
    {<<"leftMat", "rightMat", "dotProduct">>, <<"leftMat", "dotProduct", "rightMat">>,
     <<"rightMat", "leftMat", "dotProduct">>, <<"rightMat", "dotProduct", "leftMat">>,
     <<"dotProduct", "leftMat", "rightMat">>, <<"dotProduct", "rightMat", "leftMat">>}

\* The orders in which a build may load the operands of
\* leftMat(rowIndex, i).load() * rightMat(i, colIndex).
MulOrders == {"leftFirst", "rightFirst"}

\* Cell loads needed to evaluate one argument.
Loads(a) == IF a = "dotProduct" THEN 2 * N * N * N ELSE N * N

\* The locals of one loop body before any argument is evaluated; operator*
\* starts from a default-constructed dotProductMatrix.
NoArgs ==
    /\ leftMat' = RawMatrix
    /\ rightMat' = RawMatrix
    /\ dotProduct' = AtomicMatrix4x4(RawMatrix, <<>>).data
    /\ sum' = 0
    /\ operand' = 0
    /\ arg' = 1
    /\ k' = 0

PureIdle ==
    /\ ctorArg = <<>>
    /\ ctorOut = [kind |-> "none"]
    /\ opA = RawMatrix
    /\ opB = RawMatrix
    /\ opOut = [kind |-> "none"]
    /\ opArgs = <<>>

\* The positions of a thread that has not returned from
\* modifyingTestVariableValues.
TaskPositions == {"while", "lock", "mat1", "mat2", "unlock"}

\* The threads that run when a fixture instance is constructed. The
\* framework constructs the fixture of a test in the storage the deleted
\* fixture of the test before it had; a thread that fixture detached and
\* never joined goes on, at the position it has reached, on the members of
\* the new instance.
InheritedTasks == UNION {[1 .. n -> TaskPositions] : n \in 0 .. MaxInherited}

\* A fixture instance as the framework constructs it: every member
\* default-constructed (the mutex free, whoever had locked the mutex of the
\* instance before), the flag not yet written.
FixtureInit ==
    /\ test \in Tests
    /\ tasks \in InheritedTasks
    /\ inherited = Len(tasks)
    /\ argOrder \in ArgOrders
    /\ mulOrder \in MulOrders
    /\ mat1 = AtomicMatrix4x4(RawMatrix, <<>>).data
    /\ mat2 = AtomicMatrix4x4(RawMatrix, <<>>).data
    /\ shouldModificationsContinue \in BOOLEAN
    /\ calculations = <<>>
    /\ mutex = <<"free">>
    /\ alive = TRUE
    /\ hpc = "SetUp"
    /\ i = 0
    /\ arg = 1
    /\ k = 0
    /\ leftMat = RawMatrix
    /\ rightMat = RawMatrix
    /\ dotProduct = AtomicMatrix4x4(RawMatrix, <<>>).data
    /\ sum = 0
    /\ operand = 0
    /\ accuracy = <<0, 0>>
    /\ calls = <<>>
    /\ landed = FALSE
    /\ raced = <<>>

Init == FixtureInit /\ PureIdle

\* The process is ended by abort(): no thread takes another step.
Aborted == hpc = "aborted"

\* SetUp() takes no lock; every cell store and the flag store is a step of
\* its own, k counting the cell stores done. "_mat1 = { ... }" builds a
\* temporary from the literal and operator= stores its 16 cells in
\* row-major order.
SetUpStoreMat1 ==
    /\ hpc = "SetUp"
    /\ k < N * N
    /\ mat1' = Store(mat1, CellAt(k), AtomicMatrix4x4(RawMatrix, M1).data[CellAt(k)])
    /\ k' = k + 1
    /\ UNCHANGED <<test, inherited, argOrder, mulOrder, mat2, shouldModificationsContinue,
                   calculations, mutex, alive, hpc, i, arg, leftMat, rightMat, dotProduct,
                   sum, operand, accuracy, tasks, calls>>
    /\ UNCHANGED historyVars
    /\ UNCHANGED pureVars

\* "_mat2 = { ... }": the same 16 stores into _mat2.
SetUpStoreMat2 ==
    /\ hpc = "SetUp"
    /\ k >= N * N
    /\ k < 2 * N * N
    /\ mat2' = Store(mat2, CellAt(k - N * N),
                     AtomicMatrix4x4(RawMatrix, M2).data[CellAt(k - N * N)])
    /\ k' = k + 1
    /\ UNCHANGED <<test, inherited, argOrder, mulOrder, mat1, shouldModificationsContinue,
                   calculations, mutex, alive, hpc, i, arg, leftMat, rightMat, dotProduct,
                   sum, operand, accuracy, tasks, calls>>
    /\ UNCHANGED historyVars
    /\ UNCHANGED pureVars

\* _shouldModificationsContinue.store(false); SetUp returns.
SetUpStoreFlag ==
    /\ hpc = "SetUp"
    /\ k = 2 * N * N
    /\ shouldModificationsContinue' = FALSE
    /\ k' = 0
    /\ hpc' = "body"
    /\ UNCHANGED <<test, inherited, argOrder, mulOrder, mat1, mat2, calculations, mutex,
                   alive, i, arg, leftMat, rightMat, dotProduct, sum, operand, accuracy,
                   tasks, calls>>
    /\ UNCHANGED historyVars
    /\ UNCHANGED pureVars

\* SetUp(): both matrices assigned from the literals, then the flag cleared.
SetUp == SetUpStoreMat1 \/ SetUpStoreMat2 \/ SetUpStoreFlag

\* runTestVariableModifier() without its early return.
runTestVariableModifierAlways ==
    /\ shouldModificationsContinue' = TRUE
    /\ tasks' = Append(tasks, "while")

\* runTestVariableModifier(): return if the flag is set, else set it and
\* detach a thread running modifyingTestVariableValues.
runTestVariableModifier ==
    IF shouldModificationsContinue
    THEN UNCHANGED <<shouldModificationsContinue, tasks>>
    ELSE /\ shouldModificationsContinue' = TRUE
         /\ tasks' = Append(tasks, "while")

\* The first statement of both concurrent tests, then "int i = 0".
StartTest ==
    /\ hpc = "body"
    /\ Concurrent
    /\ runTestVariableModifier
    /\ i' = 0
    /\ hpc' = "for"
    /\ UNCHANGED <<test, inherited, argOrder, mulOrder, mat1, mat2, calculations, mutex, alive,
                   arg, k, leftMat, rightMat, dotProduct, sum, operand, accuracy, calls>>
    /\ UNCHANGED historyVars
    /\ UNCHANGED pureVars

\* "i < CYCLES": enter the loop body or leave the loop.
ForCheck ==
    /\ hpc = "for"
    /\ IF i < Cycles
       THEN hpc' = (IF Locked THEN "lock" ELSE "args")
       ELSE hpc' = "accuracy"
    /\ NoArgs
    /\ UNCHANGED <<test, inherited, argOrder, mulOrder, mat1, mat2, shouldModificationsContinue,
                   calculations, mutex, alive, i, accuracy, tasks, calls>>
    /\ landed' = FALSE
    /\ UNCHANGED raced
    /\ UNCHANGED pureVars

\* ::std::lock_guard<::std::mutex> lock(_mutex) of the locked test.
LockCycle ==
    /\ hpc = "lock"
    /\ mutex = <<"free">>
    /\ mutex' = <<"harness">>
    /\ hpc' = "args"
    /\ UNCHANGED <<test, inherited, argOrder, mulOrder, mat1, mat2, shouldModificationsContinue,
                   calculations, alive, i, arg, k, leftMat, rightMat, dotProduct, sum,
                   operand, accuracy, tasks, calls>>
    /\ UNCHANGED historyVars
    /\ UNCHANGED pureVars

\* The term of operator* that load number n (0..127) belongs to: rowIndex,
\* colIndex and i of the three nested loops.
TermRow(n) == (n \div 2) \div (N * N)

TermCol(n) == ((n \div 2) \div N) % N

TermI(n) == (n \div 2) % N

\* operator* indexing the left operand by the column of the output cell.
LoadLeftByColumn(n) == mat1[<<TermRow(n), TermCol(n)>>]

\* The load of _mat1 and the load of _mat2 for the term of load number n.
LoadLeft(n) == mat1[<<TermRow(n), TermI(n)>>]

LoadRight(n) == mat2[<<TermI(n), TermCol(n)>>]

\* After the last load of an argument: on to the next argument, or to the
\* constructor call once all three are evaluated.
NextLoad ==
    IF k + 1 < Loads(argOrder[arg])
    THEN /\ k' = k + 1
         /\ UNCHANGED <<arg, hpc>>
    ELSE /\ k' = 0
         /\ IF arg < 3
            THEN arg' = arg + 1 /\ UNCHANGED hpc
            ELSE arg' = arg /\ hpc' = "record"

\* One cell load of the copy of _mat1 into the first parameter.
LoadLeftArg ==
    /\ hpc = "args"
    /\ argOrder[arg] = "leftMat"
    /\ leftMat' = Store(leftMat, CellAt(k), mat1[CellAt(k)])
    /\ NextLoad
    /\ UNCHANGED <<test, inherited, argOrder, mulOrder, mat1, mat2, shouldModificationsContinue,
                   calculations, mutex, alive, i, rightMat, dotProduct, sum, operand,
                   accuracy, tasks, calls>>
    /\ UNCHANGED historyVars
    /\ UNCHANGED pureVars

\* One cell load of the copy of _mat2 into the second parameter.
LoadRightArg ==
    /\ hpc = "args"
    /\ argOrder[arg] = "rightMat"
    /\ rightMat' = Store(rightMat, CellAt(k), mat2[CellAt(k)])
    /\ NextLoad
    /\ UNCHANGED <<test, inherited, argOrder, mulOrder, mat1, mat2, shouldModificationsContinue,
                   calculations, mutex, alive, i, leftMat, dotProduct, sum, operand,
                   accuracy, tasks, calls>>
    /\ UNCHANGED historyVars
    /\ UNCHANGED pureVars

\* The first operand load of a term of _mat1 * _mat2.
LoadFirstOperand ==
    /\ hpc = "args"
    /\ argOrder[arg] = "dotProduct"
    /\ k % 2 = 0
    /\ operand' = (IF mulOrder = "leftFirst" THEN LoadLeft(k) ELSE LoadRight(k))
    /\ NextLoad
    /\ UNCHANGED <<test, inherited, argOrder, mulOrder, mat1, mat2, shouldModificationsContinue,
                   calculations, mutex, alive, i, leftMat, rightMat, dotProduct, sum,
                   accuracy, tasks, calls>>
    /\ UNCHANGED historyVars
    /\ UNCHANGED pureVars

\* The value of "dotProduct += left * right" given the second operand.
Accumulate(second) ==
    sum + (IF mulOrder = "leftFirst" THEN Term(operand, second) ELSE Term(second, operand))

\* The second operand load of a term, the addition to dotProduct and, after
\* the fourth term, the store into dotProductMatrix(rowIndex, colIndex).
LoadSecondOperand ==
    /\ hpc = "args"
    /\ argOrder[arg] = "dotProduct"
    /\ k % 2 = 1
    /\ LET second == IF mulOrder = "leftFirst" THEN LoadRight(k) ELSE LoadLeft(k)
       IN  IF TermI(k) = N - 1
           THEN /\ dotProduct' = Store(dotProduct, <<TermRow(k), TermCol(k)>>, Accumulate(second))
                /\ sum' = 0
           ELSE /\ sum' = Accumulate(second)
                /\ UNCHANGED dotProduct
    /\ operand' = 0
    /\ NextLoad
    /\ UNCHANGED <<test, inherited, argOrder, mulOrder, mat1, mat2, shouldModificationsContinue,
                   calculations, mutex, alive, i, leftMat, rightMat, accuracy, tasks, calls>>
    /\ UNCHANGED historyVars
    /\ UNCHANGED pureVars

\* The recorder built from the three evaluated arguments, as push_back stores it.
Recorded == CopyRecorder(MultiplicationRecorder(leftMat, rightMat, dotProduct))

\* MultiplicationRecorder calculation(...); _calculations.push_back(calculation);
\* in the unlocked test the loop body ends here and "i++" follows.
Record ==
    /\ hpc = "record"
    /\ calculations' = Append(calculations, Recorded)
    /\ IF Locked
       THEN hpc' = "unlock" /\ UNCHANGED i
       ELSE hpc' = "for" /\ i' = i + 1
    /\ NoArgs
    /\ UNCHANGED <<test, inherited, argOrder, mulOrder, mat1, mat2, shouldModificationsContinue,
                   mutex, alive, accuracy, tasks, calls>>
    /\ raced' = Append(raced, landed)
    /\ landed' = FALSE
    /\ UNCHANGED pureVars

\* _mutex.unlock() by a thread, the mutex being held by holder. Unlocking a
\* mutex the thread holds frees it. Unlocking one it does not hold (the
\* thread locked the mutex that was in this storage before, or a thread
\* that did so has unlocked this one meanwhile) is undefined: the mutex is
\* left free, or the process aborts on the inconsistent owner.
UnlockOutcomes(thread) ==
    IF mutex = thread THEN {"unlocked"} ELSE {"unlocked", "aborted"}

\* The lock_guard of the locked test leaves scope; "i++".
UnlockCycle ==
    /\ hpc = "unlock"
    /\ \E outcome \in UnlockOutcomes(<<"harness">>) :
          IF outcome = "unlocked"
          THEN /\ mutex' = <<"free">>
               /\ i' = i + 1
               /\ hpc' = "for"
          ELSE /\ hpc' = "aborted"
               /\ UNCHANGED <<mutex, i>>
    /\ UNCHANGED <<test, inherited, argOrder, mulOrder, mat1, mat2, shouldModificationsContinue,
                   calculations, alive, arg, k, leftMat, rightMat, dotProduct, sum,
                   operand, accuracy, tasks, calls>>
    /\ UNCHANGED historyVars
    /\ UNCHANGED pureVars

\* double accuracy = calculateAccuracy(); the test body then asserts and returns.
CalculateAccuracy ==
    /\ hpc = "accuracy"
    /\ accuracy' = calculateAccuracy(calculations)
    /\ hpc' = "TearDown"
    /\ UNCHANGED <<test, inherited, argOrder, mulOrder, mat1, mat2, shouldModificationsContinue,
                   calculations, mutex, alive, i, arg, k, leftMat, rightMat, dotProduct,
                   sum, operand, tasks, calls>>
    /\ UNCHANGED historyVars
    /\ UNCHANGED pureVars

\* A body calling runTestVariableModifier() once more.
CallStart ==
    /\ hpc = "body"
    /\ test = "startStop"
    /\ Len(calls) < MaxCalls
    /\ runTestVariableModifier
    /\ calls' = Append(calls, "start")
    /\ UNCHANGED <<test, inherited, argOrder, mulOrder, mat1, mat2, calculations, mutex, alive,
                   hpc, i, arg, k, leftMat, rightMat, dotProduct, sum, operand,
                   accuracy>>
    /\ UNCHANGED historyVars
    /\ UNCHANGED pureVars

\* _shouldModificationsContinue.store(false): the stop of the background task.
stop == shouldModificationsContinue' = FALSE

\* A body stopping the task the way TearDown does.
CallStop ==
    /\ hpc = "body"
    /\ test = "startStop"
    /\ Len(calls) < MaxCalls
    /\ stop
    /\ calls' = Append(calls, "stop")
    /\ UNCHANGED <<test, inherited, argOrder, mulOrder, mat1, mat2, calculations, mutex, alive,
                   hpc, i, arg, k, leftMat, rightMat, dotProduct, sum, operand,
                   accuracy, tasks>>
    /\ UNCHANGED historyVars
    /\ UNCHANGED pureVars

\* That body returns.
Return ==
    /\ hpc = "body"
    /\ test = "startStop"
    /\ hpc' = "TearDown"
    /\ UNCHANGED <<test, inherited, argOrder, mulOrder, mat1, mat2, shouldModificationsContinue,
                   calculations, mutex, alive, i, arg, k, leftMat, rightMat, dotProduct,
                   sum, operand, accuracy, tasks, calls>>
    /\ UNCHANGED historyVars
    /\ UNCHANGED pureVars

\* TearDown(): the flag cleared, the records dropped; no join.
TearDown ==
    /\ hpc = "TearDown"
    /\ stop
    /\ calculations' = <<>>
    /\ hpc' = "delete"
    /\ UNCHANGED <<test, inherited, argOrder, mulOrder, mat1, mat2, mutex, alive, i, arg, k,
                   leftMat, rightMat, dotProduct, sum, operand, accuracy, tasks, calls>>
    /\ raced' = <<>>
    /\ UNCHANGED landed
    /\ UNCHANGED pureVars

\* The framework deletes the fixture instance after TearDown has returned:
\* the storage of its members is released.
Delete ==
    /\ hpc = "delete"
    /\ alive' = FALSE
    /\ hpc' = "gone"
    /\ UNCHANGED <<test, inherited, argOrder, mulOrder, mat1, mat2, shouldModificationsContinue,
                   calculations, mutex, i, arg, k, leftMat, rightMat, dotProduct, sum,
                   operand, accuracy, tasks, calls>>
    /\ UNCHANGED historyVars
    /\ UNCHANGED pureVars

----------------------------------------------------------------------------
(* modifyingTestVariableValues, run by every detached thread.              *)

Goto(t, pc) == tasks' = [tasks EXCEPT ![t] = pc]

\* What a load of the flag returns: its value while the fixture exists, any
\* value once the storage has been released.
FlagLoads == IF alive THEN {shouldModificationsContinue} ELSE BOOLEAN

\* "while (_shouldModificationsContinue.load())"
While(t) ==
    /\ ~Aborted
    /\ tasks[t] = "while"
    /\ \E flag \in FlagLoads :
          Goto(t, IF flag THEN "lock" ELSE "returned")
    /\ UNCHANGED <<test, inherited, argOrder, mulOrder, mat1, mat2, shouldModificationsContinue,
                   calculations, mutex, alive, hpc, i, arg, k, leftMat, rightMat,
                   dotProduct, sum, operand, accuracy, calls>>
    /\ UNCHANGED historyVars
    /\ UNCHANGED pureVars

\* ::std::lock_guard<::std::mutex> lock(_mutex) of the task.
LockTask(t) ==
    /\ ~Aborted
    /\ tasks[t] = "lock"
    /\ mutex = <<"free">>
    /\ mutex' = <<"task", t>>
    /\ Goto(t, "mat1")
    /\ UNCHANGED <<test, inherited, argOrder, mulOrder, mat1, mat2, shouldModificationsContinue,
                   calculations, alive, hpc, i, arg, k, leftMat, rightMat, dotProduct,
                   sum, operand, accuracy, calls>>
    /\ UNCHANGED historyVars
    /\ UNCHANGED pureVars

\* The cell and the value one write of the task uses, from three rand() results.
RandomCell(rowRand, colRand) == <<rowRand % N, colRand % N>>

\* A value taken modulo 5.
RandomValueOfFive(valueRand) == valueRand % 5

RandomValue(valueRand) == valueRand % 4

\* The test body has done at least one cell load of its current loop body
\* and has at least one more to do.
BetweenLoads == hpc = "args" /\ (arg > 1 \/ k > 0)

\* _mat1(rowIndex, colIndex).store(newValue)
ModifyMat1(t) ==
    /\ ~Aborted
    /\ tasks[t] = "mat1"
    /\ \E rowRand \in RandResults, colRand \in RandResults, valueRand \in RandResults :
          mat1' = Store(mat1, RandomCell(rowRand, colRand), RandomValue(valueRand))
    /\ Goto(t, "mat2")
    /\ UNCHANGED <<test, inherited, argOrder, mulOrder, mat2, shouldModificationsContinue,
                   calculations, mutex, alive, hpc, i, arg, k, leftMat, rightMat,
                   dotProduct, sum, operand, accuracy, calls>>
    /\ landed' = (landed \/ BetweenLoads)
    /\ UNCHANGED raced
    /\ UNCHANGED pureVars

\* _mat2(rowIndex, colIndex).store(newValue)
ModifyMat2(t) ==
    /\ ~Aborted
    /\ tasks[t] = "mat2"
    /\ \E rowRand \in RandResults, colRand \in RandResults, valueRand \in RandResults :
          mat2' = Store(mat2, RandomCell(rowRand, colRand), RandomValue(valueRand))
    /\ Goto(t, "unlock")
    /\ UNCHANGED <<test, inherited, argOrder, mulOrder, mat1, shouldModificationsContinue,
                   calculations, mutex, alive, hpc, i, arg, k, leftMat, rightMat,
                   dotProduct, sum, operand, accuracy, calls>>
    /\ landed' = (landed \/ BetweenLoads)
    /\ UNCHANGED raced
    /\ UNCHANGED pureVars

\* The lock_guard of the task leaves scope at the end of the iteration.
UnlockTask(t) ==
    /\ ~Aborted
    /\ tasks[t] = "unlock"
    /\ \E outcome \in UnlockOutcomes(<<"task", t>>) :
          IF outcome = "unlocked"
          THEN /\ mutex' = <<"free">>
               /\ Goto(t, "while")
               /\ UNCHANGED hpc
          ELSE /\ hpc' = "aborted"
               /\ UNCHANGED <<mutex, tasks>>
    /\ UNCHANGED <<test, inherited, argOrder, mulOrder, mat1, mat2, shouldModificationsContinue,
                   calculations, alive, i, arg, k, leftMat, rightMat, dotProduct,
                   sum, operand, accuracy, calls>>
    /\ UNCHANGED historyVars
    /\ UNCHANGED pureVars

Task(t) == While(t) \/ LockTask(t) \/ ModifyMat1(t) \/ ModifyMat2(t) \/ UnlockTask(t)

Harness ==
    \/ SetUp \/ StartTest \/ ForCheck \/ LockCycle
    \/ LoadLeftArg \/ LoadRightArg \/ LoadFirstOperand \/ LoadSecondOperand
    \/ Record \/ UnlockCycle \/ CalculateAccuracy
    \/ CallStart \/ CallStop \/ Return
    \/ TearDown \/ Delete

Next == Harness \/ (\E t \in DOMAIN tasks : Task(t))

Spec == Init /\ [][Next]_vars

Unlocked == test = "runCalculationsWithoutThreadLocks"

\* The three test bodies one by one, each on its fixture instance with the
\* steps its thread can take.
HarnessUnlocked ==
    \/ SetUp \/ StartTest \/ ForCheck
    \/ LoadLeftArg \/ LoadRightArg \/ LoadFirstOperand \/ LoadSecondOperand
    \/ Record \/ CalculateAccuracy
    \/ TearDown \/ Delete

NextUnlocked == HarnessUnlocked \/ (\E t \in DOMAIN tasks : Task(t))

InitUnlocked == Init /\ Unlocked

SpecUnlocked == InitUnlocked /\ [][NextUnlocked]_vars

HarnessLocked == HarnessUnlocked \/ LockCycle \/ UnlockCycle

NextLocked == HarnessLocked \/ (\E t \in DOMAIN tasks : Task(t))

InitLocked == Init /\ Locked

SpecLocked == InitLocked /\ [][NextLocked]_vars

HarnessStartStop == SetUp \/ CallStart \/ CallStop \/ Return \/ TearDown \/ Delete

NextStartStop == HarnessStartStop \/ (\E t \in DOMAIN tasks : Task(t))

InitStartStop == Init /\ test = "startStop"

SpecStartStop == InitStartStop /\ [][NextStartStop]_vars

----------------------------------------------------------------------------
(* Properties of the concurrent tests.                                     *)

Records == 1 .. Len(calculations)

\* calculateAccuracy() has returned and TearDown has not yet cleared the records.
Reported == Concurrent /\ hpc = "TearDown"

\* The test body is inside a loop body of the locked test, holding the lock.
InCycle == hpc \in {"args", "record", "unlock"}

\* Task t is inside an iteration, between acquiring and releasing the lock.
InIteration(t) == tasks[t] \in {"mat1", "mat2", "unlock"}

\* C1: in the locked test every record appended so far, in every
\* interleaving with the tasks, satisfies isCorrect(), and the accuracy the
\* test computes after its CYCLES loop bodies is exactly 100.
C1_LockedAccuracyIs100 ==
    Locked =>
        /\ \A n \in Records : isCorrect(calculations[n])
        /\ Reported => (Len(calculations) = CyclesWithLocks /\ Is100(accuracy))

\* The same on a fixture instance constructed while no thread of an earlier
\* instance runs: every task then locks the mutex of this instance.
LockedAccuracyIs100OnFreshStorage == inherited = 0 => C1_LockedAccuracyIs100

\* C4: in the locked test no task is inside an iteration while the test
\* body is inside a loop body, and no step changes a cell of _mat1 or _mat2
\* between the first load of a locked loop body and the append of its
\* record.
C4_MutualExclusion ==
    /\ [](Locked => \A t \in DOMAIN tasks : ~(InIteration(t) /\ InCycle))
    /\ [][(Locked /\ InCycle) => (mat1' = mat1 /\ mat2' = mat2)]_vars

\* The same on a fixture instance constructed while no thread of an earlier
\* instance runs; the holder recorded in the mutex is then the one thread
\* inside its critical section.
MutualExclusionOnFreshStorage ==
    /\ []((Locked /\ inherited = 0) =>
            /\ \A t \in DOMAIN tasks : ~(InIteration(t) /\ InCycle)
            /\ \A t \in DOMAIN tasks, u \in DOMAIN tasks :
                  (InIteration(t) /\ InIteration(u)) => t = u
            /\ InCycle => mutex = <<"harness">>
            /\ \A t \in DOMAIN tasks : InIteration(t) => mutex = <<"task", t>>)
    /\ [][(Locked /\ inherited = 0 /\ InCycle) => (mat1' = mat1 /\ mat2' = mat2)]_vars

\* The contents SetUp gives the two shared matrices.
SetUpMat1 == CopyMatrix(AtomicMatrix4x4(RawMatrix, M1).data)

SetUpMat2 == CopyMatrix(AtomicMatrix4x4(RawMatrix, M2).data)

\* The values a task store can write.
TaskValues == {RandomValue(r) : r \in RandResults}

\* C2: in the unlocked test a record can be incorrect, and only because a
\* task store landed between two cell loads of its loop body; the cells it
\* holds are nevertheless whole values, each one written by SetUp or by one
\* task store (every single load and store is atomic).
C2_IncorrectOnlyByInterleaving ==
    Unlocked =>
        \A n \in Records :
            /\ ~isCorrect(calculations[n]) => raced[n]
            /\ \A c \in Cells :
                  /\ StoredLeft(calculations[n])[c] \in {SetUpMat1[c]} \cup TaskValues
                  /\ StoredRight(calculations[n])[c] \in {SetUpMat2[c]} \cup TaskValues

\* An unlocked loop body during which a task store landed has appended a
\* record whose product is not the product of its two operand copies.
C2_Witness ==
    /\ Unlocked
    /\ \E n \in Records : raced[n] /\ ~isCorrect(calculations[n])

\* When the unlocked run has ended the accuracy is 100 exactly when every
\* record is correct, and it is 100 whenever no task store landed inside a
\* loop body.
AccuracyBelow100OnlyIfRaced ==
    (Unlocked /\ Reported) =>
        /\ Len(calculations) = CyclesWithoutLocks
        /\ Is100(accuracy) <=> (\A n \in Records : isCorrect(calculations[n]))
        /\ (\A n \in Records : ~raced[n]) => Is100(accuracy)

\* The unlocked run of a fixture instance with no thread of an earlier
\* instance has ended with an accuracy of 100 although a store of its task
\* landed between two cell loads of a loop body.
AccuracyIs100DespiteStores ==
    /\ Unlocked
    /\ inherited = 0
    /\ Reported
    /\ Is100(accuracy)
    /\ \E n \in Records : raced[n]

\* C3: after the unlocked run, the task having been started before the
\* first cycle, calculateAccuracy() is not 100.
C3_UnlockedAccuracyNot100 == (Unlocked /\ Reported) => ~Is100(accuracy)

\* C5: no step other than the clearing of the collection changes a stored
\* cell of an existing record; once calculateAccuracy() has called
\* isCorrect() on the records, calling it again gives the same answers (and
\* so the same accuracy), whatever the tasks have stored meanwhile.
C5_RecordsAreFrozen ==
    /\ [][\A n \in Records :
            n <= Len(calculations') =>
                /\ StoredLeft(calculations[n])' = StoredLeft(calculations[n])
                /\ StoredRight(calculations[n])' = StoredRight(calculations[n])
                /\ StoredProduct(calculations[n])' = StoredProduct(calculations[n])
                /\ (Reported /\ Reported') =>
                      isCorrect(calculations[n])' = isCorrect(calculations[n])]_vars
    /\ [](Reported => accuracy = calculateAccuracy(calculations))

\* A record holds the operands as they were when it was built although the
\* task has since overwritten a cell of each shared matrix; calculateAccuracy
\* has called isCorrect() on it.
C5_Witness ==
    /\ Reported
    /\ Len(calculations) >= 1
    /\ isCorrect(calculations[1])
    /\ StoredLeft(calculations[1]) = SetUpMat1
    /\ StoredRight(calculations[1]) = SetUpMat2
    /\ mat1 # SetUpMat1
    /\ mat2 # SetUpMat2

\* The calls a "startStop" body has made so far, as a set.
Called == {calls[n] : n \in 1 .. Len(calls)}

\* C6: a call of runTestVariableModifier() made while the flag is set
\* changes neither the flag nor the set of tasks (it launches no thread), so
\* the starts of a body that makes no stop launch at most one task, however
\* many they are; a stop made while the flag is clear changes nothing of
\* the fixture.
C6_StartStopIdempotent ==
    /\ [][/\ (CallStart /\ shouldModificationsContinue) =>
                UNCHANGED <<shouldModificationsContinue, tasks, mat1, mat2, mutex>>
          /\ (CallStop /\ ~shouldModificationsContinue) =>
                UNCHANGED <<shouldModificationsContinue, tasks, mat1, mat2, mutex>>]_vars
    /\ []("stop" \notin Called => Len(tasks) <= inherited + 1)

\* A stop on the stopped fixture, a start, and a start while running have
\* been made, and the one task they launched exists.
C6_Witness ==
    /\ calls = <<"stop", "start", "start">>
    /\ shouldModificationsContinue
    /\ inherited = 0
    /\ Len(tasks) = 1

\* TearDown has stored false into the flag; the test thread makes no
\* further start.
Stopped == hpc \in {"delete", "gone"}

\* C7: once TearDown has cleared the flag, a task that reaches its loop
\* check leaves the loop there, so it does at most the iteration it was in,
\* and a task that has returned does nothing more.
C7_CooperativeStop ==
    [][\A t \in DOMAIN tasks :
          /\ (Stopped /\ tasks[t] = "while") => tasks'[t] \in {"while", "returned"}
          /\ tasks[t] = "returned" => tasks'[t] = "returned"]_vars

\* The same while the fixture instance exists (the flag is still storage of
\* a live object): the cooperative stop itself works.
CooperativeStopWhileAlive ==
    [][\A t \in DOMAIN tasks :
          /\ (alive /\ ~shouldModificationsContinue /\ tasks[t] = "while") =>
                tasks'[t] \in {"while", "returned"}
          /\ tasks[t] = "returned" => tasks'[t] = "returned"]_vars

\* C8: once the fixture instance is destroyed no task takes a step, each
\* step of a task being a load of the flag, an operation on the mutex or a
\* store to a matrix cell.
C8_TaskWithinFixtureLifetime == [][~alive => tasks' = tasks]_vars

----------------------------------------------------------------------------
(* The matrix operations on their own, applied to bounded inputs with no   *)
(* other thread running.                                                   *)

\* No fixture exists: only operands and results of the operation under check.
NoFixture ==
    /\ test = "none"
    /\ inherited = 0
    /\ argOrder = <<"leftMat", "rightMat", "dotProduct">>
    /\ mulOrder = "leftFirst"
    /\ mat1 = RawMatrix
    /\ mat2 = RawMatrix
    /\ shouldModificationsContinue = FALSE
    /\ calculations = <<>>
    /\ mutex = <<"free">>
    /\ alive = FALSE
    /\ hpc = "none"
    /\ i = 0
    /\ arg = 1
    /\ k = 0
    /\ leftMat = RawMatrix
    /\ rightMat = RawMatrix
    /\ dotProduct = RawMatrix
    /\ sum = 0
    /\ operand = 0
    /\ accuracy = <<0, 0>>
    /\ tasks = <<>>
    /\ calls = <<>>
    /\ landed = FALSE
    /\ raced = <<>>

\* The element written at row r, column c (from 1) of an initializer list:
\* a different nonzero value at every position.
Element(r, c) == MaxListLen * r + c

\* The initializer lists with the row lengths given by shape.
ListOf(shape) == [r \in 1 .. Len(shape) |-> [c \in 1 .. shape[r] |-> Element(r, c)]]

RECURSIVE Shapes(_)
\* The sequences of up to n row lengths, each at most MaxListLen.
Shapes(n) ==
    IF n = 0 THEN {<<>>}
    ELSE Shapes(n - 1) \cup
         {Append(sh, len) : sh \in {x \in Shapes(n - 1) : Len(x) = n - 1},
                            len \in 0 .. MaxListLen}

InitCtor ==
    /\ NoFixture
    /\ ctorArg \in {ListOf(shape) : shape \in Shapes(MaxListLen)}
    /\ ctorOut = [kind |-> "none"]
    /\ opA = RawMatrix
    /\ opB = RawMatrix
    /\ opOut = [kind |-> "none"]
    /\ opArgs = <<>>

\* AtomicMatrix4x4 matrix = { ... };
Construct ==
    /\ ctorOut.kind = "none"
    /\ \E raw \in RawMatrices : ctorOut' = AtomicMatrix4x4(raw, ctorArg)
    /\ UNCHANGED <<ctorArg, opA, opB, opOut, opArgs>>
    /\ UNCHANGED fixtureVars

NextCtor == Construct

SpecCtor == InitCtor /\ [][NextCtor]_vars

\* The operand matrices: the two SetUp contents and each of them with one
\* diagonal cell overwritten by a value a task can write.
Operands ==
    {SetUpMat1, SetUpMat2} \cup
    {Store(m, <<d, d>>, v) : m \in {SetUpMat1, SetUpMat2}, d \in Index, v \in 0 .. 3}

InitMul ==
    /\ NoFixture
    /\ ctorArg = <<>>
    /\ ctorOut = [kind |-> "none"]
    /\ opA \in Operands
    /\ opB \in Operands
    /\ opOut = [kind |-> "none"]
    /\ opArgs = <<>>

\* opA * opB, the operands passed by const reference.
ApplyMultiply ==
    /\ opOut.kind = "none"
    /\ opOut' = Value(Multiply(opA, opB))
    /\ UNCHANGED <<ctorArg, ctorOut, opA, opB, opArgs>>
    /\ UNCHANGED fixtureVars

NextMul == ApplyMultiply

SpecMul == InitMul /\ [][NextMul]_vars

\* The products the test verifyDotProductImplementationCorrectness expects.
mat1DotMat2 == <<<<5, 6, 3, 6>>, <<2, 2, 4, 4>>, <<5, 7, 3, 5>>, <<3, 3, 3, 3>>>>

mat2DotMat1 == <<<<3, 6, 3, 2>>, <<4, 4, 3, 3>>, <<6, 6, 3, 7>>, <<3, 5, 3, 3>>>>

\* C9: with no concurrent writer operator* returns the matrix whose cell
\* (i, j) is the sum over k of A[i][k] * B[k][j] and leaves both operands as
\* they were; for the SetUp literals it gives the two products the test
\* expects, and these differ.
C9_MultiplyIsMatrixProduct ==
    /\ [](opOut.kind = "matrix" =>
            /\ \A c \in Cells :
                  opOut.data[c] = opA[<<c[1], 0>>] * opB[<<0, c[2]>>]
                                  + opA[<<c[1], 1>>] * opB[<<1, c[2]>>]
                                  + opA[<<c[1], 2>>] * opB[<<2, c[2]>>]
                                  + opA[<<c[1], 3>>] * opB[<<3, c[2]>>]
            /\ (opA = SetUpMat1 /\ opB = SetUpMat2) =>
                  \A c \in Cells : opOut.data[c] = mat1DotMat2[c[1] + 1][c[2] + 1]
            /\ (opA = SetUpMat2 /\ opB = SetUpMat1) =>
                  \A c \in Cells : opOut.data[c] = mat2DotMat1[c[1] + 1][c[2] + 1])
    /\ [][opA' = opA /\ opB' = opB]_vars
    /\ [](NotEqual(Multiply(SetUpMat1, SetUpMat2), Multiply(SetUpMat2, SetUpMat1)))

\* _mat1 * _mat2 of the SetUp literals has been computed.
C9_Witness ==
    /\ opA = SetUpMat1
    /\ opB = SetUpMat2
    /\ opOut.kind = "matrix"
    /\ opOut.data[<<0, 0>>] = 5
    /\ opOut.data[<<2, 1>>] = 7

\* The value of cell c the claim expects from the constructor.
ExpectedCell(values, c) ==
    IF c[1] < Len(values) /\ c[2] < Len(values[c[1] + 1])
    THEN values[c[1] + 1][c[2] + 1]
    ELSE 0

\* C10: for every initializer with at most 4 rows of at most 4 values the
\* constructed matrix has the supplied values in their positions and 0.0
\* in every cell of every omitted row and every omitted column.
C10_ZeroFill ==
    ctorOut.kind = "matrix" =>
        \A c \in Cells : ctorOut.data[c] = ExpectedCell(ctorArg, c)

----------------------------------------------------------------------------
(* Errors of construction and of cell access.                              *)

\* An initializer list the constructor refuses: more than 4 rows, or a row
\* of more than 4 values.
TooLarge(values) == Len(values) > N \/ \E r \in 1 .. Len(values) : Len(values[r]) > N

\* Construction from a refused list throws and gives no matrix.
ConstructionFails ==
    (ctorOut.kind # "none" /\ TooLarge(ctorArg)) => ctorOut.kind = "out_of_range"

\* C11: construction from more than 4 rows, or from a row of more than 4
\* values, fails and gives no matrix, and the kind of the error it fails
\* with is not the kind of the error of an out-of-range cell access.
C11_ConfigurationErrorIsDistinct ==
    (ctorOut.kind # "none" /\ TooLarge(ctorArg)) =>
        /\ ctorOut.kind # "matrix"
        /\ \A rowIndex, colIndex \in 0 .. MaxListLen :
              At(rowIndex, colIndex).kind # "reference" =>
                 ctorOut.kind # At(rowIndex, colIndex).kind

\* Largest index handed to operator() (4 and more are out of range).
MaxIndex == 5

\* The values stored to a cell: the doubles 0.0 .. 3.0.
CellValues == 0 .. 3

\* A matrix with the SetUp contents, two indices and a value.
InitAccess ==
    /\ NoFixture
    /\ ctorArg = <<>>
    /\ ctorOut = [kind |-> "none"]
    /\ opA \in {SetUpMat1, SetUpMat2}
    /\ opB = RawMatrix
    /\ opOut = [kind |-> "none"]
    /\ opArgs \in (0 .. MaxIndex) \X (0 .. MaxIndex) \X CellValues

\* opA(rowIndex, colIndex).store(value): operator() throws before any store
\* when an index is out of range.
SetCell ==
    /\ opOut.kind = "none"
    /\ IF At(opArgs[1], opArgs[2]).kind = "reference"
       THEN /\ opA' = Store(opA, At(opArgs[1], opArgs[2]).cell, opArgs[3])
            /\ opOut' = [kind |-> "stored"]
       ELSE /\ opA' = opA
            /\ opOut' = At(opArgs[1], opArgs[2])
    /\ UNCHANGED <<ctorArg, ctorOut, opB, opArgs>>
    /\ UNCHANGED fixtureVars

\* opA(rowIndex, colIndex).load(), as the first operation or right after the
\* store.
GetCell ==
    /\ opOut.kind \in {"none", "stored"}
    /\ IF At(opArgs[1], opArgs[2]).kind = "reference"
       THEN opOut' = [kind |-> "loaded", value |-> opA[At(opArgs[1], opArgs[2]).cell]]
       ELSE opOut' = At(opArgs[1], opArgs[2])
    /\ UNCHANGED <<ctorArg, ctorOut, opA, opB, opArgs>>
    /\ UNCHANGED fixtureVars

NextAccess == SetCell \/ GetCell

SpecAccess == InitAccess /\ [][NextAccess]_vars

\* C12: a cell access fails with the out-of-range error exactly when its
\* row or its column is 4 or more, and a failed access changes no cell; the
\* indices the task computes from rand() results never make it fail.
C12_IndexErrorOnlyOutOfRange ==
    /\ [](opOut.kind # "none" =>
            (opOut.kind = "out_of_range" <=> (opArgs[1] >= N \/ opArgs[2] >= N)))
    /\ [][(opArgs[1] >= N \/ opArgs[2] >= N) => opA' = opA]_vars
    /\ [](\A rowRand, colRand \in 0 .. MaxRand :
            At(RandomCell(rowRand, colRand)[1], RandomCell(rowRand, colRand)[2]).kind
               = "reference")

\* A store at row 4, the first row out of range, has failed.
C12_Witness ==
    /\ opArgs[1] = N
    /\ opArgs[2] = 0
    /\ opOut = OutOfRange("Invalid index.")
    /\ opA \in {SetUpMat1, SetUpMat2}

\* C16: a load of a cell made right after a store of v to it returns v,
\* and the store changes no other cell.
C16_GetAfterSet ==
    /\ [][(opOut.kind = "stored" /\ opOut'.kind = "loaded") => opOut'.value = opArgs[3]]_vars
    /\ [][opOut'.kind = "stored" =>
            \A c \in Cells : c # <<opArgs[1], opArgs[2]>> => opA'[c] = opA[c]]_vars

\* 3 was stored to cell (1, 2) of the first SetUp matrix, which held 1, and
\* the load that followed returned 3.
C16_Witness ==
    /\ opArgs = <<1, 2, 3>>
    /\ opOut = [kind |-> "loaded", value |-> 3]
    /\ \A c \in Cells : opA[c] = (IF c = <<1, 2>> THEN 3 ELSE SetUpMat1[c])
    /\ SetUpMat1[<<1, 2>>] = 1

----------------------------------------------------------------------------
(* calculateAccuracy() on its own, over bounded record collections.        *)

\* Most records in a collection handed to calculateAccuracy().
MaxRecords == 3

\* Records a test body can push: two correct ones, one whose product is not
\* the product of its operands, and one whose left operand got a task store
\* after the product was computed.
SampleRecords ==
    {MultiplicationRecorder(SetUpMat1, SetUpMat2, Multiply(SetUpMat1, SetUpMat2)),
     MultiplicationRecorder(SetUpMat2, SetUpMat1, Multiply(SetUpMat2, SetUpMat1)),
     MultiplicationRecorder(SetUpMat1, SetUpMat2, SetUpMat1),
     MultiplicationRecorder(Store(SetUpMat1, <<2, 2>>, 2), SetUpMat2,
                            Multiply(SetUpMat1, SetUpMat2))}

\* A fixture after SetUp, no task started, whose body is about to call
\* calculateAccuracy() on the records it holds.
InitAccuracy ==
    /\ test = "calculateAccuracy"
    /\ inherited = 0
    /\ argOrder = <<"leftMat", "rightMat", "dotProduct">>
    /\ mulOrder = "leftFirst"
    /\ mat1 = SetUpMat1
    /\ mat2 = SetUpMat2
    /\ shouldModificationsContinue = FALSE
    /\ calculations \in UNION {[1 .. n -> SampleRecords] : n \in 0 .. MaxRecords}
    /\ mutex = <<"free">>
    /\ alive = TRUE
    /\ hpc = "accuracy"
    /\ i = 0
    /\ arg = 1
    /\ k = 0
    /\ leftMat = RawMatrix
    /\ rightMat = RawMatrix
    /\ dotProduct = RawMatrix
    /\ sum = 0
    /\ operand = 0
    /\ accuracy = <<0, 0>>
    /\ tasks = <<>>
    /\ calls = <<>>
    /\ landed = FALSE
    /\ raced = <<>>
    /\ PureIdle

NextAccuracy == CalculateAccuracy

SpecAccuracy == InitAccuracy /\ [][NextAccuracy]_vars

\* calculateAccuracy() has returned.
Returned == hpc = "TearDown"

\* C13: with no record calculateAccuracy() does not return the quotient of
\* an unguarded division by the record count 0.
C13_ZeroCyclesHandled ==
    (Returned /\ Len(calculations) = 0) => accuracy[2] # 0

\* The records of the collection that are correct.
CorrectRecords == {r \in Records : isCorrect(calculations[r])}

\* C17: for n > 0 records calculateAccuracy() returns 100 * c / n with c the
\* number of correct records, a value in [0, 100] that is 100 exactly when
\* every record is correct; the call changes neither the records nor the
\* shared matrices.
C17_AccuracyFormula ==
    /\ []((Returned /\ Len(calculations) > 0) =>
            /\ accuracy = <<100 * Cardinality(CorrectRecords), Len(calculations)>>
            /\ 0 <= accuracy[1]
            /\ accuracy[1] <= 100 * accuracy[2]
            /\ Is100(accuracy) <=> CorrectRecords = Records)
    /\ [][UNCHANGED <<calculations, mat1, mat2>>]_vars

\* The accuracy of three records of which two are correct has been computed.
C17_Witness ==
    /\ Returned
    /\ Len(calculations) = 3
    /\ Cardinality(CorrectRecords) = 2
    /\ accuracy = <<200, 3>>

----------------------------------------------------------------------------
(* Reassignment of a whole record.                                         *)

\* A collection of records and the positions <<target, source>> of an
\* assignment between two of them; no test of the repository makes one.
InitRecorder ==
    /\ test = "assignRecorder"
    /\ inherited = 0
    /\ argOrder = <<"leftMat", "rightMat", "dotProduct">>
    /\ mulOrder = "leftFirst"
    /\ mat1 = SetUpMat1
    /\ mat2 = SetUpMat2
    /\ shouldModificationsContinue = FALSE
    /\ calculations \in UNION {[1 .. n -> SampleRecords] : n \in 1 .. MaxRecords}
    /\ mutex = <<"free">>
    /\ alive = TRUE
    /\ hpc = "body"
    /\ i = 0
    /\ arg = 1
    /\ k = 0
    /\ leftMat = RawMatrix
    /\ rightMat = RawMatrix
    /\ dotProduct = RawMatrix
    /\ sum = 0
    /\ operand = 0
    /\ accuracy = <<0, 0>>
    /\ tasks = <<>>
    /\ calls = <<>>
    /\ landed = FALSE
    /\ raced = <<>>
    /\ ctorArg = <<>>
    /\ ctorOut = [kind |-> "none"]
    /\ opA = RawMatrix
    /\ opB = RawMatrix
    /\ opOut = [kind |-> "none"]
    /\ opArgs \in (1 .. Len(calculations)) \X (1 .. Len(calculations))

\* _calculations[target] = _calculations[source];
AssignRecord ==
    /\ opOut.kind = "none"
    /\ calculations' =
          [calculations EXCEPT ![opArgs[1]] = AssignRecorder(@, calculations[opArgs[2]])]
    /\ opOut' = [kind |-> "assigned"]
    /\ UNCHANGED <<test, inherited, argOrder, mulOrder, mat1, mat2, shouldModificationsContinue,
                   mutex, alive, hpc, i, arg, k, leftMat, rightMat, dotProduct, sum,
                   operand, accuracy, tasks, calls>>
    /\ UNCHANGED historyVars
    /\ UNCHANGED <<ctorArg, ctorOut, opA, opB, opArgs>>

NextRecorder == AssignRecord

SpecRecorder == InitRecorder /\ [][NextRecorder]_vars

\* After the assignment the target holds the 48 cells of the source, so
\* isCorrect() answers for it what it answers for the source; every other
\* record is as it was.
AssignedWholeRecord ==
    opOut.kind = "assigned" =>
        /\ \A c \in Cells :
              /\ StoredLeft(calculations[opArgs[1]])[c] = StoredLeft(calculations[opArgs[2]])[c]
              /\ StoredRight(calculations[opArgs[1]])[c] = StoredRight(calculations[opArgs[2]])[c]
              /\ StoredProduct(calculations[opArgs[1]])[c] =
                    StoredProduct(calculations[opArgs[2]])[c]
        /\ isCorrect(calculations[opArgs[1]]) = isCorrect(calculations[opArgs[2]])

\* The assignment writes no record but its target.
AssignedOnlyTarget ==
    [][\A n \in Records : n # opArgs[1] => calculations'[n] = calculations[n]]_vars

----------------------------------------------------------------------------
(* Copies of a matrix and later stores to the copy or to its source.       *)

\* opA is the source; opB is the storage of the other matrix: not yet
\* constructed, or a matrix constructed earlier that is assigned to.
InitCopy ==
    /\ NoFixture
    /\ ctorArg = <<>>
    /\ ctorOut = [kind |-> "none"]
    /\ opA \in Operands
    /\ opB \in {RawMatrix, SetUpMat1, SetUpMat2}
    /\ opOut = [kind |-> "none"]
    /\ opArgs \in Index \X Index \X CellValues

\* AtomicMatrix4x4 matrix = opA;
CopyConstruct ==
    /\ opOut.kind = "none"
    /\ opB = RawMatrix
    /\ opB' = CopyMatrix(opA)
    /\ opOut' = [kind |-> "copied"]
    /\ UNCHANGED <<ctorArg, ctorOut, opA, opArgs>>
    /\ UNCHANGED fixtureVars

\* matrix = opA; on a matrix constructed earlier.
CopyAssign ==
    /\ opOut.kind = "none"
    /\ opB # RawMatrix
    /\ opB' = CopyFrom(opB, opA, 0)
    /\ opOut' = [kind |-> "copied"]
    /\ UNCHANGED <<ctorArg, ctorOut, opA, opArgs>>
    /\ UNCHANGED fixtureVars

\* matrix(rowIndex, colIndex).store(value) on the copy: the cell is an
\* element of the copy's own _data array.
StoreToCopy ==
    /\ opOut.kind = "copied"
    /\ opB' = Store(opB, At(opArgs[1], opArgs[2]).cell, opArgs[3])
    /\ opOut' = [kind |-> "storedToCopy"]
    /\ UNCHANGED <<ctorArg, ctorOut, opA, opArgs>>
    /\ UNCHANGED fixtureVars

\* The same store on the source.
StoreToSource ==
    /\ opOut.kind = "copied"
    /\ opA' = Store(opA, At(opArgs[1], opArgs[2]).cell, opArgs[3])
    /\ opOut' = [kind |-> "storedToSource"]
    /\ UNCHANGED <<ctorArg, ctorOut, opB, opArgs>>
    /\ UNCHANGED fixtureVars

NextCopy == CopyConstruct \/ CopyAssign \/ StoreToCopy \/ StoreToSource

SpecCopy == InitCopy /\ [][NextCopy]_vars

\* C14: after copy construction or copy assignment the copy equals the
\* source in all 16 cells; a later store to the copy changes no cell of the
\* source, a later store to the source changes no cell of the copy, and
\* each store lands in the one cell addressed.
C14_CopyIndependence ==
    /\ [](opOut.kind = "copied" => (Equal(opB, opA) /\ \A c \in Cells : opB[c] = opA[c]))
    /\ [][opOut'.kind = "storedToCopy" =>
            /\ opA' = opA
            /\ opB' = [opA EXCEPT ![<<opArgs[1], opArgs[2]>>] = opArgs[3]]]_vars
    /\ [][opOut'.kind = "storedToSource" =>
            /\ opB' = opB
            /\ opA' = [opB EXCEPT ![<<opArgs[1], opArgs[2]>>] = opArgs[3]]]_vars

\* A copy of the first SetUp matrix got 3 stored to its cell (0, 0), which
\* held 1; the source still holds 1 there.
C14_Witness ==
    /\ opOut.kind = "storedToCopy"
    /\ opArgs = <<0, 0, 3>>
    /\ opA = SetUpMat1
    /\ opA[<<0, 0>>] = 1
    /\ opB[<<0, 0>>] = 3

----------------------------------------------------------------------------
(* The comparison operators on their own.                                  *)

\* The matrices compared: the operands of the product and two matrices that
\* hold a NaN.
Comparands ==
    Operands \cup {Store(SetUpMat1, <<0, 0>>, NaN), Store(SetUpMat2, <<N - 1, N - 1>>, NaN)}

InitEqual ==
    /\ NoFixture
    /\ ctorArg = <<>>
    /\ ctorOut = [kind |-> "none"]
    /\ opA \in Comparands
    /\ opB \in Comparands
    /\ opOut = [kind |-> "none"]
    /\ opArgs = <<>>

\* opA == opB and opA != opB; with opB = opA the comparison of a matrix
\* with itself.
ApplyEqual ==
    /\ opOut.kind = "none"
    /\ opOut' = [kind |-> "compared", equal |-> Equal(opA, opB),
                 notEqual |-> NotEqual(opA, opB)]
    /\ UNCHANGED <<ctorArg, ctorOut, opA, opB, opArgs>>
    /\ UNCHANGED fixtureVars

NextEqual == ApplyEqual

SpecEqual == InitEqual /\ [][NextEqual]_vars

\* operator== is true exactly when no pair of corresponding cells compares
\* unequal, and operator!= is its negation.
EqualIffNoCellDiffers ==
    opOut.kind = "compared" =>
        /\ opOut.equal <=> \A c \in Cells : ~DoubleNotEqual(opA[c], opB[c])
        /\ opOut.notEqual <=> ~opOut.equal

\* C15: operator== is true exactly when all 16 pairs of corresponding cells
\* are equal and operator!= is its negation; every matrix equals itself,
\* and the two SetUp literals are unequal.
C15_EqualityIsCellwise ==
    opOut.kind = "compared" =>
        /\ opOut.equal <=> \A c \in Cells : ~DoubleNotEqual(opA[c], opB[c])
        /\ opOut.notEqual <=> ~opOut.equal
        /\ opA = opB => opOut.equal
        /\ (opA = SetUpMat1 /\ opB = SetUpMat2) => opOut.notEqual

----------------------------------------------------------------------------
(* One iteration of the task on its own.                                   *)

\* A task has passed its loop check and TearDown has then cleared the flag
\* and the records; the fixture instance still exists. The task does the
\* iteration it has entered and leaves at its next loop check.
InitIteration ==
    /\ test = "iteration"
    /\ inherited = 0
    /\ argOrder = <<"leftMat", "rightMat", "dotProduct">>
    /\ mulOrder = "leftFirst"
    /\ mat1 = SetUpMat1
    /\ mat2 = SetUpMat2
    /\ shouldModificationsContinue = FALSE
    /\ calculations = <<>>
    /\ mutex = <<"free">>
    /\ alive = TRUE
    /\ hpc = "delete"
    /\ i = 0
    /\ arg = 1
    /\ k = 0
    /\ leftMat = RawMatrix
    /\ rightMat = RawMatrix
    /\ dotProduct = RawMatrix
    /\ sum = 0
    /\ operand = 0
    /\ accuracy = <<0, 0>>
    /\ tasks = <<"lock">>
    /\ calls = <<>>
    /\ landed = FALSE
    /\ raced = <<>>
    /\ PureIdle

NextIteration == \E t \in DOMAIN tasks : Task(t)

SpecIteration == InitIteration /\ [][NextIteration]_vars

\* The order of the steps of an iteration.
IterationSteps ==
    {<<"while", "lock">>, <<"while", "returned">>, <<"lock", "mat1">>,
     <<"mat1", "mat2">>, <<"mat2", "unlock">>, <<"unlock", "while">>}

\* C18: an iteration of the task makes exactly two stores, the first to one
\* cell of _mat1 and the second to one cell of _mat2, each at indices in
\* 0..3 with a value in {0, 1, 2, 3}; no other step of the task changes a
\* matrix, and no step of it changes the records or the flag.
C18_IterationFrame ==
    [][\A t \in DOMAIN tasks :
          /\ tasks'[t] # tasks[t] => <<tasks[t], tasks'[t]>> \in IterationSteps
          /\ (tasks[t] = "mat1" /\ tasks'[t] = "mat2") =>
                /\ \E cell \in Cells, v \in 0 .. 3 : mat1' = [mat1 EXCEPT ![cell] = v]
                /\ mat2' = mat2
          /\ (tasks[t] = "mat2" /\ tasks'[t] = "unlock") =>
                /\ \E cell \in Cells, v \in 0 .. 3 : mat2' = [mat2 EXCEPT ![cell] = v]
                /\ mat1' = mat1
          /\ (tasks'[t] # tasks[t] /\ tasks[t] \notin {"mat1", "mat2"}) =>
                (mat1' = mat1 /\ mat2' = mat2)
          /\ calculations' = calculations
          /\ shouldModificationsContinue' = shouldModificationsContinue]_vars

\* The task has returned after one iteration that stored 3 to cell (3, 3)
\* of _mat1, which held 0, and 0 to cell (0, 1) of _mat2, which held 2.
C18_Witness ==
    /\ test = "iteration"
    /\ tasks = <<"returned">>
    /\ \A c \in Cells : mat1[c] = (IF c = <<3, 3>> THEN 3 ELSE SetUpMat1[c])
    /\ \A c \in Cells : mat2[c] = (IF c = <<0, 1>> THEN 0 ELSE SetUpMat2[c])
    /\ SetUpMat1[<<3, 3>>] = 0
    /\ SetUpMat2[<<0, 1>>] = 2

----------------------------------------------------------------------------
(* The number of tasks.                                                    *)

\* The threads started by runTestVariableModifier that have not returned
\* from modifyingTestVariableValues.
AliveTasks == {t \in DOMAIN tasks : tasks[t] # "returned"}

\* C20: whatever start and stop calls the test thread has made, at most one
\* task is alive.
C20_AtMostOneTaskAlive == Cardinality(AliveTasks) <= 1

----------------------------------------------------------------------------
(* Progress of the locked test.                                            *)

\* A step of task t, for t among the threads started so far.
TaskStep(t) == t \in DOMAIN tasks /\ Task(t)

\* A fixture instance of the locked test constructed while no thread of an
\* earlier instance runs.
InitLockedFresh == InitLocked /\ inherited = 0

\* The locked test on such an instance. The scheduler runs every thread
\* that can take a step: the thread of the test body and every detached
\* thread. A thread waiting in lock() can take its step only while the
\* mutex is free; ::std::mutex has no queue and hands the mutex to no
\* waiter, so a waiter whose tries all come while the mutex is held is
\* passed over.
FairSpec ==
    /\ InitLockedFresh
    /\ [][NextLocked]_vars
    /\ WF_vars(HarnessLocked)
    /\ \A t \in 1 .. (MaxInherited + MaxCalls) : WF_vars(TaskStep(t))

\* The locked test has left its loop after all its cycles, the mutex not
\* held by the test body.
LoopDone ==
    /\ Locked
    /\ hpc \in {"accuracy", "TearDown", "delete", "gone"}
    /\ i = CyclesWithLocks
    /\ mutex # <<"harness">>

\* A task holds the mutex only inside an iteration.
HeldInsideIteration ==
    \A t \in DOMAIN tasks : mutex = <<"task", t>> => InIteration(t)

\* The locked test cannot deadlock: in every behaviour in which a try of
\* the waiting test body finds the mutex free whenever the mutex is free
\* again and again, the test completes all its cycles and releases the
\* mutex. A task holds the mutex only inside an iteration.
ProgressIfBodyFindsMutexFree ==
    /\ SF_vars(LockCycle) => ((Locked /\ hpc = "for" /\ i = 0) ~> LoopDone)
    /\ []HeldInsideIteration

====
